---- MODULE Spec2Model ----
(***************************************************************************)
(* Browser Use Agent (mcp-server/bua): the ReAct loop of                   *)
(* BrowserUseAgent.run, the action executor BrowserTools.execute and the   *)
(* action parser parse_action_from_dict.                                   *)
(*                                                                         *)
(* The page and the LLM callback are the environment: every outcome they   *)
(* can produce is a nondeterministic choice of the action that calls them. *)
(***************************************************************************)
EXTENDS Integers, Sequences, FiniteSets, TLC

VARIABLES
    max_steps,       \* AgentConfig.max_steps
    pc,              \* position of the run coroutine / of the driver
    is_running,      \* BrowserUseAgent.is_running
    step,            \* local step of run
    last_url,        \* local last_url of run ("" = none yet)
    current_url,     \* local current_url of run
    retry,           \* snapshot attempts made in this iteration
    response,        \* what the LLM callback last did in _select_action
    action_dict,     \* mapping returned by _select_action
    step_history,    \* BrowserUseAgent.step_history
    page_summaries,  \* BrowserUseAgent.page_summaries
    page_url,        \* page.url
    action_history,  \* BrowserTools.action_history
    result,          \* mapping returned by run
    exit,            \* why the loop was left
    fault,           \* where an exception unwound out of run
    llm_calls,       \* LLM callback invocations in this run
    reflections,     \* _reflect_on_failure invocations in this run
    parse_in,        \* argument of a parse_action_from_dict call
    parse_out,       \* what that call produced
    max_retries,     \* AgentConfig.max_retries
    llm_callback,    \* which LLM callback the agent was constructed with
    runs_left,       \* run calls the driver still makes on this agent
    summaries_before, \* len(page_summaries) when the current run was entered
    dom,             \* the page: what query_selector_all finds, in document order
    page_forms,      \* number of form elements on the page
    element_index,   \* SnapshotExtractor.element_index
    snapshot,        \* what the last extract call produced
    page_fault,      \* which page operation raised during the last extract call
    max_elements,    \* argument of the last snapshot_to_text call
    text,            \* lines of the last snapshot_to_text result
    agent_instance,  \* bua_server.agent_instance: "none", "ready", or "broken"
    in_flight,       \* requests read by run_mcp_server and not yet answered
    requests_read,   \* requests read so far
    tool_name,       \* params.name of the request being handled
    tool_response,   \* what handle_mcp_request returned for the last tools/call
    browser,         \* BrowserUseAgent.browser: "none", or a browser "open" or "closed"
    handle,          \* the element handle given to one _extract_element_info call
    element,         \* the selector and classification that call produced
    line,            \* the line run_mcp_server has read from stdin
    stdout,          \* the response lines run_mcp_server has printed
    is_logged_in,    \* BookCrawler.is_logged_in
    crawler_calls,   \* calls made on the crawler so far
    crawler_result   \* what the last call on the crawler did and returned

vars == <<max_steps, pc, is_running, step, last_url, current_url, retry,
          response, action_dict, step_history, page_summaries, page_url,
          action_history, result, exit, fault, llm_calls, reflections,
          parse_in, parse_out, max_retries, llm_callback, runs_left,
          summaries_before, dom, page_forms, element_index, snapshot, page_fault,
          max_elements, text, agent_instance, in_flight, requests_read, tool_name,
          tool_response, browser, handle, element, line, stdout, is_logged_in,
          crawler_calls, crawler_result>>

runVars == <<max_steps, is_running, step, last_url, current_url, retry, response,
             action_dict, step_history, page_summaries, result, exit, fault,
             llm_calls, reflections>>

parseVars == <<parse_in, parse_out>>

\* the stdin and stdout of run_mcp_server
stdioVars == <<line, stdout>>

\* book_crawler.py: the BookCrawler behind the library tools of server.py
crawlerVars == <<is_logged_in, crawler_calls, crawler_result>>

\* what is fixed when the agent is constructed
configVars == <<max_retries, llm_callback>>

\* the configuration and the browser, which no step of the loop assigns
envVars == <<max_retries, llm_callback, browser>>

\* the caller of run
driverVars == <<runs_left, summaries_before>>

\* SnapshotExtractor and snapshot_to_text
extractVars == <<dom, page_forms, element_index, snapshot, page_fault, max_elements, text,
                handle, element>>

\* bua_server
serverVars == <<agent_instance, in_flight, requests_read, tool_name, tool_response>>

-----------------------------------------------------------------------------
(* Bounds *)

MaxSteps == 2
MaxDirect == 2
MaxRetries == 4
LongSteps == 7
MaxRequests == 2
MaxRuns == 2
ScriptedSteps == 3
MaxElems == 2
MaxRender == 3
MaxClasses == 3
MaxCalls == 4

-----------------------------------------------------------------------------
(* JSON values.  A string is its lower-cased text plus a flag telling       *)
(* whether the original had an upper-case letter, so that str.lower() is a  *)
(* real conversion.                                                         *)

Missing == [t |-> "missing", s |-> "", up |-> FALSE]
Null == [t |-> "null", s |-> "", up |-> FALSE]
Num == [t |-> "num", s |-> "5", up |-> FALSE]

Str(s) == [t |-> "str", s |-> s, up |-> FALSE]

StrUp(s) == [t |-> "str", s |-> s, up |-> TRUE]

Lower(v) == [v EXCEPT !.up = FALSE]

\* dict.get(key, default)
Get(v, default) == IF v.t = "missing" THEN default ELSE v

\* dict.get(key): None when the key is absent
GetNone(v) == IF v.t = "missing" THEN Null ELSE v

Dict(a, sel, val, rsn) == [action |-> a, selector |-> sel, value |-> val, reason |-> rsn]

EmptyDict == Dict(Missing, Missing, Missing, Missing)

ActionNames == {"navigate", "click", "type", "select", "scroll", "wait",
                "press_key", "hover", "go_back", "screenshot", "done"}

NumericStrings == {"1", "2"}

Urls == {"u0", "u1"}

-----------------------------------------------------------------------------
(* tools.py: Action, parse_action_from_dict *)

Action(kind, sel, val, rsn) == [kind |-> kind, selector |-> sel, value |-> val, reason |-> rsn]

\* action_type_map.get(key, ActionType.WAIT): the keys are the 11 lower-case names
ActionTypeMapGet(key) == IF \E n \in ActionNames : key = Str(n) THEN key.s ELSE "wait"

\* action_dict.get("action", "").lower(): only a str has .lower()
ActionTypeStr(d) == Lower(Get(d.action, Str("")))

\* .lower() on None or on a number raises AttributeError
ParseRaises(d) == Get(d.action, Str("")).t # "str"

parse_action_from_dict(d) ==
    IF ParseRaises(d)
    THEN [raised |-> TRUE, act |-> Action("none", Null, Null, Str(""))]
    ELSE [raised |-> FALSE,
          act |-> Action(ActionTypeMapGet(ActionTypeStr(d)),
                         GetNone(d.selector), GetNone(d.value),
                         Get(d.reason, Str("")))]

-----------------------------------------------------------------------------
(* tools.py: BrowserTools.execute and its sub-operations.                   *)
(* op is what the page operation did: "ok", "raise" (it threw) or "none"    *)
(* (wait_for_selector returned no element).                                 *)

NoError == "<None>"

SelectorKinds == {"click", "type", "select", "hover"}

\* kinds whose page operation can change the page location
MovingKinds == {"navigate", "click", "press_key", "go_back"}

\* float(seconds)
FloatOk(v) == \/ v.t = "num"
              \/ v.t = "str" /\ v.s \in NumericStrings

PageOps(a) ==
    CASE a.kind \in SelectorKinds -> {"ok", "raise", "none"}
      [] a.kind \in {"navigate", "scroll", "press_key", "go_back", "screenshot"} -> {"ok", "raise"}
      [] a.kind = "wait" -> IF FloatOk(a.value) THEN {"ok"} ELSE {"raise"}
      [] OTHER -> {"ok"}

AfterUrls(a, op, before) ==
    IF a.kind \in MovingKinds /\ op # "none" THEN Urls ELSE {before}

DefaultFilenameUncounted(n) == Str("screenshot.png")

\* screenshot: filename = f"screenshot_{len(self.action_history)}.png" when omitted
DefaultFilename(n) == Str("screenshot_" \o ToString(n) \o ".png")

Filename(val, n) == IF val.t \in {"null", "missing"} \/ val = Str("") THEN DefaultFilename(n) ELSE val

\* the Action object each sub-operation puts into its ActionResult
ResultAction(a, n) ==
    CASE a.kind = "navigate" -> Action("navigate", Null, a.value, Str(""))
      [] a.kind = "click" -> Action("click", a.selector, Null, Str(""))
      [] a.kind = "type" -> Action("type", a.selector, a.value, Str(""))
      [] a.kind = "select" -> Action("select", a.selector, a.value, Str(""))
      [] a.kind = "scroll" -> Action("scroll", Null, a.value, Str(""))
      [] a.kind = "wait" -> Action("wait", Null, a.value, Str(""))
      [] a.kind = "press_key" -> Action("press_key", Null, a.value, Str(""))
      [] a.kind = "hover" -> Action("hover", a.selector, Null, Str(""))
      [] a.kind = "go_back" -> Action("go_back", Null, Null, Str(""))
      [] a.kind = "screenshot" -> Action("screenshot", Null, Filename(a.value, n), Str(""))
      [] OTHER -> a

ResultSuccess(a, op) ==
    CASE a.kind = "done" -> TRUE
      [] a.kind \in ActionNames \ {"done"} -> op = "ok"
      [] OTHER -> FALSE

ResultErrorOnlyOnRaise(a, op) ==
    CASE a.kind = "done" -> NoError
      [] a.kind \in ActionNames \ {"done"} ->
            IF op = "raise" THEN "str(e)" ELSE NoError
      [] OTHER -> "Unknown action type"

\* error= of the ActionResult; "str(e)" is the message of the exception caught,
\* which for Playwright's errors and timeouts is not empty
ResultError(a, op) ==
    CASE a.kind = "done" -> NoError
      [] a.kind \in ActionNames \ {"done"} ->
            IF op = "ok" THEN NoError
            ELSE IF op = "none" THEN "Element not found" ELSE "str(e)"
      [] OTHER -> "Unknown action type"

ResultMessage(a, op) ==
    CASE a.kind = "done" -> "Task completed"
      [] a.kind \in ActionNames \ {"done"} ->
            IF op = "ok" THEN "completed"
            ELSE IF op = "none" THEN "Element not found" ELSE "failed"
      [] OTHER -> "Unknown action"

AfterUrlStale(before, after) == before

\* after_url=self.page.url, read when the ActionResult is built, after the operation
AfterUrlRead(before, after) == after

\* the ActionResult of execute(a); before/after are page.url at call and at return,
\* n is len(action_history) at call
ExecuteResult(a, op, before, after, n) ==
    [success |-> ResultSuccess(a, op),
     message |-> ResultMessage(a, op),
     action |-> ResultAction(a, n),
     before_url |-> before,
     after_url |-> AfterUrlRead(before, after),
     error |-> ResultError(a, op),
     screenshot_path |-> IF a.kind = "screenshot" /\ op = "ok" THEN Filename(a.value, n) ELSE Null]

-----------------------------------------------------------------------------
(* agent.py: what the LLM callback can return, and _select_action's parsing *)

TypicalSelector(n) == IF n \in SelectorKinds THEN Str("#a") ELSE Missing

TypicalValue(n) ==
    CASE n = "wait" -> Str("1")
      [] n = "navigate" -> Str("u1")
      [] n \in {"type", "select", "scroll", "press_key", "done"} -> Str("v")
      [] OTHER -> Missing

TypicalDict(n) == Dict(Str(n), TypicalSelector(n), TypicalValue(n), Str("r"))

\* the JSON objects the LLM answers with during a run
LLMDicts ==
    {TypicalDict(n) : n \in ActionNames}
    \cup {Dict(StrUp("done"), Missing, Missing, Missing),
          Dict(Str("fly"), Missing, Missing, Str("r")),
          Dict(Str("wait"), Missing, Str("abc"), Missing),
          Dict(Null, Missing, Missing, Missing),
          Dict(Num, Missing, Str("1"), Missing),
          Dict(Missing, Missing, Missing, Str("r")),
          EmptyDict}

\* a callback outcome: it raises, returns a non-str (None), returns prose without
\* any {...}, returns a {...} that is not JSON, or returns text holding a JSON object
Response(t, d) == [t |-> t, d |-> d, inner |-> EmptyDict]

\* text holding one JSON object d, one of whose values is the JSON object inner
Nested(d, inner) == [t |-> "nested", d |-> d, inner |-> inner]

NoResponse == Response("none", EmptyDict)

Responses ==
    {Response(t, EmptyDict) : t \in {"raise", "nontext", "prose", "badjson"}}
    \cup {Response("json", d) : d \in LLMDicts}

\* a callback that always answers with one of a few JSON objects: a click, a wait
\* written in capitals or under a name outside the catalogue, a plain wait, done
ScriptedDicts ==
    {TypicalDict("click"), TypicalDict("wait"), TypicalDict("done"),
     Dict(StrUp("wait"), Missing, Str("1"), Str("r")),
     Dict(Str("fly"), Missing, Str("1"), Str("r"))}

\* a callback whose JSON objects carry an object-valued entry, such as
\* {"action": "click", "selector": "#a", "value": {"value": "1"}}, or a plain done
NestingResponses ==
    {Nested(TypicalDict("click"), Dict(Missing, Missing, Str("1"), Missing)),
     Nested(TypicalDict("navigate"), Dict(Missing, Missing, Str("abc"), Missing)),
     Nested(TypicalDict("click"), Dict(Str("done"), Missing, Missing, Missing)),
     Nested(TypicalDict("done"), EmptyDict),
     Response("json", TypicalDict("done"))}

\* what the callback given to BrowserUseAgent(llm_callback=...) can answer
CallbackRange(cb) ==
    CASE cb = "scripted" -> {Response("json", d) : d \in ScriptedDicts}
      [] cb = "nesting" -> NestingResponses
      [] cb = "waiting" -> {Response("json", TypicalDict("wait")),
                            Response("json", Dict(Str("wait"), Missing, Str("abc"), Missing)),
                            Response("json", TypicalDict("done"))}
      [] cb = "terse" -> {Response("json", TypicalDict("click")),
                          Response("json", TypicalDict("done"))}
      [] OTHER -> Responses

\* re.search on a non-str raises TypeError, which except json.JSONDecodeError lets through
SelectRaises(resp) == resp.t \in {"raise", "nontext"}

\* _select_action's return value: None (no match, or JSONDecodeError) or the mapping
SelectReturnsNone(resp) == resp.t \in {"prose", "badjson"}

\* json.loads(re.search(r'\{[^{}]*\}', response).group()): the pattern admits no
\* brace between its two braces, so in an object holding an object the first
\* match is the inner one
JsonMatch(resp) == IF resp.t = "nested" THEN resp.inner ELSE resp.d

SelectionFailedIgnoresNone(resp) == resp.t = "json" /\ resp.d = EmptyDict

\* run: `if not action_dict` holds for None and for the empty mapping
SelectionFailed(resp) == SelectReturnsNone(resp) \/ JsonMatch(resp) = EmptyDict

-----------------------------------------------------------------------------
(* snapshot.py: SnapshotExtractor.extract and snapshot_to_text.             *)
(* A candidate is one handle returned by query_selector_all: its tag, what  *)
(* is_visible() answers and what its other calls do.  Lengths are in        *)
(* hundredths of a pixel.                                                   *)

IGNORE_TAGS == {"script", "style", "noscript", "meta", "link", "head"}

Tags == {"a", "button", "script"}

\* "detached": every call on the handle raises; "nobox": bounding_box() is None
Geoms == {"detached", "nobox", "w0", "h0", "tiny", "ok"}

Candidates == [tag : Tags, visible : BOOLEAN, geom : Geoms]

\* handle.bounding_box()
BoundingBox(c) ==
    CASE c.geom = "w0" -> [width |-> 0, height |-> 1000]
      [] c.geom = "h0" -> [width |-> 1000, height |-> 0]
      [] c.geom = "tiny" -> [width |-> 4, height |-> 1000]
      [] OTHER -> [width |-> 1000, height |-> 2000]

\* round(x, 1)
Round1(x) == ((x + 5) \div 10) * 10

BoxRejectedOnlyWhenEmpty(c) ==
    c.geom = "nobox" \/ (BoundingBox(c).width = 0 /\ BoundingBox(c).height = 0)

\* if not bbox or bbox['width'] == 0 or bbox['height'] == 0
BoxRejected(c) ==
    c.geom = "nobox" \/ BoundingBox(c).width = 0 \/ BoundingBox(c).height = 0

ElementInfo(idx, c) ==
    [index |-> idx, tag |-> c.tag, is_visible |-> c.visible,
     bbox |-> [width |-> Round1(BoundingBox(c).width),
               height |-> Round1(BoundingBox(c).height)]]

NoElement == [index |-> 0, tag |-> "", is_visible |-> FALSE,
              bbox |-> [width |-> 0, height |-> 0]]

_extract_element_info_before_increment(c, idx) ==
    IF \/ c.geom = "detached"
       \/ c.tag \in IGNORE_TAGS
       \/ ~c.visible
       \/ BoxRejected(c)
    THEN [some |-> FALSE, info |-> NoElement]
    ELSE [some |-> TRUE, info |-> ElementInfo(idx, c)]

\* returns None (some = FALSE) or the ElementInfo numbered idx + 1
_extract_element_info(c, idx) ==
    IF \/ c.geom = "detached"
       \/ c.tag \in IGNORE_TAGS
       \/ ~c.visible
       \/ BoxRejected(c)
    THEN [some |-> FALSE, info |-> NoElement]
    ELSE [some |-> TRUE, info |-> ElementInfo(idx + 1, c)]

RECURSIVE ExtractHandles(_, _)
\* the loop over the handles; idx is self.element_index
ExtractHandles(handles, idx) ==
    IF handles = <<>> THEN <<>>
    ELSE LET e == _extract_element_info(Head(handles), idx)
         IN IF e.some /\ e.info.is_visible
            THEN <<e.info>> \o ExtractHandles(Tail(handles), idx + 1)
            ELSE ExtractHandles(Tail(handles), idx)

\* which awaited page call raises inside extract: page.title(), or
\* page.query_selector_all(selector)
ExtractFaults == {"none", "title", "query"}

ExtractStartKept(idx) == idx

\* self.element_index = 0, the first statement of extract
ExtractStart(idx) == 0

\* an exception of query_selector_all is printed and the list built so far returned
_extract_interactive_elements(handles, f) ==
    IF f = "query" THEN <<>> ELSE ExtractHandles(handles, ExtractStart(element_index))

\* self.element_index when extract is left
IndexAfterExtract(handles, f) ==
    IF f = "title" THEN ExtractStart(element_index)
    ELSE ExtractStart(element_index) + Len(_extract_interactive_elements(handles, f))

PageSnapshot(url, elements, forms) ==
    [raised |-> FALSE, url |-> url, elements |-> elements, forms |-> forms]

\* extract did not return: the exception of page.title() went to the caller
SnapshotRaised == [raised |-> TRUE, url |-> "", elements |-> <<>>, forms |-> 0]

NoSnapshot == [raised |-> FALSE, url |-> "", elements |-> <<>>, forms |-> 0]

extract(url, handles, forms, f) ==
    IF f = "title" THEN SnapshotRaised
    ELSE PageSnapshot(url, _extract_interactive_elements(handles, f), forms)

Line(k, n) == [k |-> k, n |-> n]

HeaderLines == [i \in 1..6 |-> Line("head", i)]

PrefixOneMore(seq, m) ==
    IF m >= 0 THEN SubSeq(seq, 1, IF m + 1 < Len(seq) THEN m + 1 ELSE Len(seq))
    ELSE SubSeq(seq, 1, Len(seq) + m)

\* seq[:m]
Prefix(seq, m) ==
    IF m >= 0 THEN SubSeq(seq, 1, IF m < Len(seq) THEN m ELSE Len(seq))
    ELSE SubSeq(seq, 1, Len(seq) + m)

\* the list `lines` that snapshot_to_text joins with "\n"
snapshot_to_text(snap, m) ==
    LET shown == Prefix(snap.elements, m)
    IN HeaderLines
       \o [i \in 1..Len(shown) |-> Line("elem", shown[i].index)]
       \o (IF Len(snap.elements) > m
           THEN <<Line("more", Len(snap.elements) - m)>> ELSE <<>>)
       \o (IF snap.forms > 0
           THEN <<Line("blank", 0), Line("forms", 0)>>
                \o [i \in 1..snap.forms |-> Line("form", i - 1)]
           ELSE <<>>)

\* one handle as _extract_element_info and _generate_selector see it: the tag,
\* what getAttribute answers for id, name, data-testid, role and onclick
\* (Null = the attribute is absent), el.classList and el.isContentEditable
ElementTags == {"a", "button", "div", "input"}

ClassNames == {"c", "d"}

AttrValues == {Null, Str(""), Str("x")}

RoleValues == {Null, Str("button"), Str("link")}

NoHandle == [tag |-> "", id |-> Null, name |-> Null, testid |-> Null, role |-> Null,
             onclick |-> Null, classList |-> <<>>, isContentEditable |-> FALSE]

\* the attribute names the attrs script of _extract_element_info loops over
CollectedAttrs == {"id", "name", "class", "type", "href", "placeholder", "value",
                   "role", "aria-label", "title", "alt", "data-testid"}

\* if (el.getAttribute(attr)) result[attr] = el.getAttribute(attr): attrs has
\* an entry only for a collected name with a non-empty value; attrs.get(name)
Attr(name, val) ==
    IF name \in CollectedAttrs /\ val.t = "str" /\ val.s # "" THEN val ELSE Null

NoSelector == [form |-> "none", tag |-> "", val |-> "", classes |-> <<>>]

SelectorNameFirst(h) ==
    CASE Attr("name", h.name) # Null ->
            [form |-> "name", tag |-> h.tag, val |-> Attr("name", h.name).s, classes |-> <<>>]
      [] Attr("id", h.id) # Null ->
            [form |-> "id", tag |-> "", val |-> Attr("id", h.id).s, classes |-> <<>>]
      [] Attr("data-testid", h.testid) # Null ->
            [form |-> "testid", tag |-> "", val |-> Attr("data-testid", h.testid).s,
             classes |-> <<>>]
      [] Prefix(h.classList, 2) # <<>> ->
            [form |-> "class", tag |-> h.tag, val |-> "", classes |-> Prefix(h.classList, 2)]
      [] OTHER -> [form |-> "tag", tag |-> h.tag, val |-> "", classes |-> <<>>]

\* "#id", "tag[name='n']", "[data-testid='t']", "tag.c1.c2" or "tag"
_generate_selector(h) ==
    CASE Attr("id", h.id) # Null ->
            [form |-> "id", tag |-> "", val |-> Attr("id", h.id).s, classes |-> <<>>]
      [] Attr("name", h.name) # Null ->
            [form |-> "name", tag |-> h.tag, val |-> Attr("name", h.name).s, classes |-> <<>>]
      [] Attr("data-testid", h.testid) # Null ->
            [form |-> "testid", tag |-> "", val |-> Attr("data-testid", h.testid).s,
             classes |-> <<>>]
      [] Prefix(h.classList, 2) # <<>> ->
            [form |-> "class", tag |-> h.tag, val |-> "", classes |-> Prefix(h.classList, 2)]
      [] OTHER -> [form |-> "tag", tag |-> h.tag, val |-> "", classes |-> <<>>]

\* tag in ['a', 'button'] or attrs.get('onclick') or attrs.get('role') == 'button',
\* as a truth value
is_clickable(h) ==
    \/ h.tag \in {"a", "button"}
    \/ Attr("onclick", h.onclick) # Null
    \/ Attr("role", h.role) = Str("button")

\* tag in ['input', 'textarea', 'select'] or el.isContentEditable
is_editable(h) == h.tag \in {"input", "textarea", "select"} \/ h.isContentEditable

NoClassification ==
    [selector |-> NoSelector, is_clickable |-> FALSE, is_editable |-> FALSE]

NoCrawlerResult ==
    [op |-> "none", location |-> <<>>, success |-> FALSE, message |-> "", navigated |-> FALSE]

\* BookCrawler.__init__: is_logged_in = False
InitNoCrawler ==
    /\ is_logged_in = FALSE
    /\ crawler_calls = 0
    /\ crawler_result = NoCrawlerResult

\* no line read yet
NoLine == [kind |-> "none", value |-> "", method |-> "", params |-> "", id |-> 0,
           tool |-> ""]

\* the agent was constructed and initialized by its user; no MCP server loop
InitNoServer ==
    /\ agent_instance = "ready"
    /\ in_flight = 0
    /\ requests_read = 0
    /\ tool_name = ""
    /\ tool_response = [kind |-> "none", keys |-> {}]
    /\ line = NoLine
    /\ stdout = <<>>
    /\ InitNoCrawler

\* no page content is looked at outside the snapshot specifications
InitPage ==
    /\ dom = <<>>
    /\ page_forms = 0
    /\ element_index = 0
    /\ snapshot = NoSnapshot
    /\ page_fault = "none"
    /\ max_elements = 0
    /\ text = <<>>
    /\ handle = NoHandle
    /\ element = NoClassification

-----------------------------------------------------------------------------
(* agent.py: BrowserUseAgent.run and its helpers *)

SnapshotAttempts == 3

\* AgentConfig.max_retries: int = 3
DefaultMaxRetries == 3

StepRecordCountedFromZero(n, d, r) ==
    [step |-> n - 1, thought |-> Get(d.reason, Str("")), action |-> d,
     observation |-> r.message, success |-> r.success]

\* StepRecord(step=step, thought=action_dict.get("reason", ""), action=action_dict,
\* observation=result.message, success=result.success)
StepRecord(n, d, r) ==
    [step |-> n, thought |-> Get(d.reason, Str("")), action |-> d,
     observation |-> r.message, success |-> r.success]

LastN(seq, n) == IF Len(seq) <= n THEN seq ELSE SubSeq(seq, Len(seq) - n + 1, Len(seq))

\* r.success and r.action.get('action') != 'wait'
SummaryFilter(r) == r.success /\ GetNone(r.action.action) # Str("wait")

\* f"{action}: {selector, else value, else ''}"
CompletedEntry(r) == <<GetNone(r.action.action), Get(r.action.selector, Get(r.action.value, Str("")))>>

_post_summary(hist, url) ==
    LET url_actions == SelectSeq(hist, SummaryFilter)
        recent == LastN(url_actions, 5)
    IN [url |-> url, page_type |-> "unknown",
        completed_actions |-> [i \in 1..Len(recent) |-> CompletedEntry(recent[i])]]

HistoryWindowOfSix(hist) == LastN(hist, 6)

\* recent = self.step_history[-5:]
HistoryWindow(hist) == LastN(hist, 5)

\* f"Step {r.step}: {r.action.get('action')} -> {r.observation}"
HistoryLine(r) == [step |-> r.step, action |-> GetNone(r.action.action),
                   observation |-> r.observation]

\* history_text, or the marker "없음" written in its place when it is empty
PromptHistory(hist) ==
    IF hist = <<>> THEN <<"none">>
    ELSE [i \in 1..Len(HistoryWindow(hist)) |-> HistoryLine(HistoryWindow(hist)[i])]

NoContext == [url |-> "", completed_actions |-> <<>>]

\* context_text of the prompt: nothing when self.page_summaries is empty, else
\* the url and completed_actions[:3] of self.page_summaries[-1]
PromptContext(sums) ==
    IF sums = <<>> THEN NoContext
    ELSE [url |-> sums[Len(sums)].url,
          completed_actions |-> Prefix(sums[Len(sums)].completed_actions, 3)]

LoopGuardOffByOne(running, s, m) == running /\ s <= m

\* while self.is_running and step < self.config.max_steps
LoopGuard(running, s, m) == running /\ s < m

TransitionWithoutLast(last, cur) == cur # last

\* if last_url and current_url != last_url
TransitionDetected(last, cur) == last # "" /\ cur # last

EndOfIterationForgets(last, cur) == ""

\* last_url = current_url, the last assignment of the loop body, reached after a
\* successful step and after the reflection of a failed one alike
EndOfIteration(last, cur) == cur

DoneCheckNever(a) == FALSE

\* if action.action_type == ActionType.DONE
DoneCheck(a) == a.kind = "done"

\* "success": not self.is_running or step < self.config.max_steps
RunSuccess(running, s, m) == ~running \/ s < m

NoResult == [returned |-> FALSE, success |-> FALSE, steps |-> 0, history |-> <<>>,
             page_summaries |-> <<>>, final_url |-> ""]

RunResult(running, s, m, hist, sums, url) ==
    [returned |-> TRUE, success |-> RunSuccess(running, s, m), steps |-> s,
     history |-> hist, page_summaries |-> sums, final_url |-> url]

NoParse == [raised |-> FALSE, act |-> Action("none", Null, Null, Str(""))]

\* BrowserUseAgent.__init__ plus initialize: a fresh agent on a blank page
InitAgent ==
    /\ is_running = FALSE
    /\ step = 0
    /\ last_url = ""
    /\ current_url = ""
    /\ retry = 0
    /\ response = NoResponse
    /\ action_dict = EmptyDict
    /\ step_history = <<>>
    /\ page_summaries = <<>>
    /\ page_url = "u0"
    /\ action_history = <<>>
    /\ result = NoResult
    /\ exit = "none"
    /\ fault = "none"
    /\ llm_calls = 0
    /\ reflections = 0
    /\ summaries_before = 0

\* the default configuration apart from max_steps, any callback, one run call
Init ==
    /\ max_steps \in 0..MaxSteps
    /\ max_retries = DefaultMaxRetries
    /\ llm_callback = "any"
    /\ runs_left = 1
    /\ pc = "idle"
    /\ browser = "none"
    /\ InitAgent
    /\ InitNoServer
    /\ InitPage
    /\ parse_in = EmptyDict
    /\ parse_out = NoParse

RunningAtStartKept(r) == r

\* self.is_running = True
RunningAtStart(r) == TRUE

\* if not self.browser: await self.initialize()
BrowserAtRun(b) == IF b = "none" THEN "open" ELSE b

\* page.goto raises on a page whose browser was closed, and the page stays put
GotoOutcomes(b) == IF b = "closed" THEN {"raise"} ELSE {"ok", "raise"}

GotoUrls(b, url) == IF b = "closed" THEN {url} ELSE Urls

\* wait_for_load_state and extract raise on a page whose browser was closed
SnapshotOutcomes(b) == IF b = "closed" THEN {FALSE} ELSE BOOLEAN

\* run up to the loop: the browser is launched when the agent holds none, the
\* run's state is reset, then the optional navigate to start_url
RunStart ==
    /\ pc \in {"idle", "returned", "raised"}
    /\ runs_left > 0
    /\ runs_left' = runs_left - 1
    /\ summaries_before' = Len(page_summaries)
    /\ step_history' = <<>>
    /\ is_running' = RunningAtStart(is_running)
    /\ step' = 0
    /\ last_url' = ""
    /\ browser' = BrowserAtRun(browser)
    /\ \/ UNCHANGED <<page_url, action_history>>
       \/ \E op \in GotoOutcomes(browser), after \in GotoUrls(browser, page_url) :
            LET a == Action("navigate", Null, Str("u1"), Str(""))
            IN /\ page_url' = after
               /\ action_history' = Append(action_history,
                      ExecuteResult(a, op, page_url, after, Len(action_history)))
    /\ pc' = "loop"
    /\ current_url' = ""
    /\ retry' = 0
    /\ response' = NoResponse
    /\ action_dict' = EmptyDict
    /\ result' = NoResult
    /\ exit' = "none"
    /\ fault' = "none"
    /\ llm_calls' = 0
    /\ reflections' = 0
    /\ UNCHANGED <<max_steps, page_summaries>>
    /\ UNCHANGED <<configVars, parseVars, stdioVars, crawlerVars, extractVars, serverVars>>

\* the while test, step += 1, and the page-transition check with its post-summary
LoopTest ==
    /\ pc = "loop"
    /\ IF LoopGuard(is_running, step, max_steps)
       THEN /\ step' = step + 1
            /\ current_url' = page_url
            /\ page_summaries' =
                  IF TransitionDetected(last_url, page_url)
                  THEN Append(page_summaries, _post_summary(step_history, last_url))
                  ELSE page_summaries
            /\ retry' = 0
            /\ pc' = "snapshot"
            /\ UNCHANGED exit
       ELSE /\ pc' = "finish"
            /\ exit' = "budget"
            /\ UNCHANGED <<step, current_url, page_summaries, retry>>
    /\ UNCHANGED <<max_steps, is_running, last_url, response, action_dict,
                   step_history, page_url, action_history, result, fault, llm_calls,
                   reflections>>
    /\ UNCHANGED <<envVars, driverVars, parseVars, stdioVars, crawlerVars, extractVars, serverVars>>

\* one pass of `for retry in range(3)`: wait_for_load_state and extract, which
\* either give a snapshot or raise
SnapshotAttempt ==
    /\ pc = "snapshot"
    /\ retry' = retry + 1
    /\ \E ok \in SnapshotOutcomes(browser) :
         IF ok
         THEN pc' = "select" /\ UNCHANGED exit
         ELSE IF retry + 1 < SnapshotAttempts
              THEN pc' = "snapshot" /\ UNCHANGED exit
              ELSE pc' = "finish" /\ exit' = "snapshot"
    /\ UNCHANGED <<max_steps, is_running, step, last_url, current_url, response,
                   action_dict, step_history, page_summaries, page_url,
                   action_history, result, fault, llm_calls, reflections>>
    /\ UNCHANGED <<envVars, driverVars, parseVars, stdioVars, crawlerVars, extractVars, serverVars>>

\* _select_action (the LLM call and the JSON extraction) and run's check of it
SelectAction ==
    /\ pc = "select"
    /\ llm_calls' = llm_calls + 1
    /\ \E resp \in CallbackRange(llm_callback) :
         /\ response' = resp
         /\ IF SelectRaises(resp)
            THEN /\ pc' = "raised"
                 /\ fault' = IF resp.t = "raise" THEN "select_callback" ELSE "select_nontext"
                 /\ UNCHANGED <<action_dict, exit>>
            ELSE IF SelectionFailed(resp)
            THEN /\ pc' = "finish"
                 /\ exit' = IF SelectReturnsNone(resp) THEN "select" ELSE "select_empty"
                 /\ UNCHANGED <<action_dict, fault>>
            ELSE /\ pc' = "execute"
                 /\ action_dict' = JsonMatch(resp)
                 /\ UNCHANGED <<exit, fault>>
    /\ UNCHANGED <<max_steps, is_running, step, last_url, current_url, retry,
                   step_history, page_summaries, page_url, action_history, result,
                   reflections>>
    /\ UNCHANGED <<envVars, driverVars, parseVars, stdioVars, crawlerVars, extractVars, serverVars>>

\* parse_action_from_dict, tools.execute, the StepRecord, the done check and, for a
\* step that succeeded, the end of the iteration
ExecuteStep ==
    /\ pc = "execute"
    /\ LET p == parse_action_from_dict(action_dict)
       IN IF p.raised
          THEN /\ pc' = "raised"
               /\ fault' = "parse"
               /\ UNCHANGED <<is_running, last_url, step_history, page_url,
                              action_history, exit>>
          ELSE \E op \in PageOps(p.act) : \E after \in AfterUrls(p.act, op, page_url) :
               LET r == ExecuteResult(p.act, op, page_url, after, Len(action_history))
               IN /\ page_url' = after
                  /\ action_history' = Append(action_history, r)
                  /\ step_history' = Append(step_history, StepRecord(step, action_dict, r))
                  /\ UNCHANGED fault
                  /\ IF DoneCheck(p.act)
                     THEN /\ is_running' = FALSE
                          /\ pc' = "finish"
                          /\ exit' = "done"
                          /\ UNCHANGED last_url
                     ELSE IF ~r.success
                     THEN /\ pc' = "reflect"
                          /\ UNCHANGED <<is_running, last_url, exit>>
                     ELSE /\ pc' = "loop"
                          /\ last_url' = EndOfIteration(last_url, current_url)
                          /\ UNCHANGED <<is_running, exit>>
    /\ UNCHANGED <<max_steps, step, current_url, retry, response, action_dict,
                   page_summaries, result, llm_calls, reflections>>
    /\ UNCHANGED <<envVars, driverVars, parseVars, stdioVars, crawlerVars, extractVars, serverVars>>

\* _reflect_on_failure (one LLM call whose text is only printed), then the end of
\* the iteration
Reflect ==
    /\ pc = "reflect"
    /\ llm_calls' = llm_calls + 1
    /\ reflections' = reflections + 1
    /\ \E raises \in BOOLEAN :
         IF raises
         THEN /\ pc' = "raised"
              /\ fault' = "reflect_callback"
              /\ UNCHANGED last_url
         ELSE /\ pc' = "loop"
              /\ last_url' = EndOfIteration(last_url, current_url)
              /\ UNCHANGED fault
    /\ UNCHANGED <<max_steps, is_running, step, current_url, retry, response,
                   action_dict, step_history, page_summaries, page_url,
                   action_history, result, exit>>
    /\ UNCHANGED <<envVars, driverVars, parseVars, stdioVars, crawlerVars, extractVars, serverVars>>

\* the result mapping built after the loop
Return ==
    /\ pc = "finish"
    /\ result' = RunResult(is_running, step, max_steps, step_history, page_summaries, page_url)
    /\ pc' = "returned"
    /\ UNCHANGED <<max_steps, is_running, step, last_url, current_url, retry,
                   response, action_dict, step_history, page_summaries, page_url,
                   action_history, exit, fault, llm_calls, reflections>>
    /\ UNCHANGED <<envVars, driverVars, parseVars, stdioVars, crawlerVars, extractVars, serverVars>>

Next == RunStart \/ LoopTest \/ SnapshotAttempt \/ SelectAction \/ ExecuteStep \/ Reflect \/ Return

Spec == Init /\ [][Next]_vars

-----------------------------------------------------------------------------
(* BrowserTools.execute called directly on the agent's tools, as the        *)
(* bua_server tool calls browser_navigate, browser_click, browser_type and  *)
(* browser_screenshot do, for every Action a caller can construct.          *)

DirectSelectors(n) == IF n \in SelectorKinds THEN {Null, Str("#a")} ELSE {Null}

DirectValues(n) ==
    CASE n = "wait" -> {Null, Str("1"), Str("abc"), Num}
      [] n = "screenshot" -> {Null, Str("f.png")}
      [] n \in {"navigate", "type", "select", "scroll", "press_key", "done"} -> {Str("v")}
      [] OTHER -> {Null}

\* "bogus" stands for an action_type outside the ActionType enum
DirectActions ==
    UNION {{Action(n, sel, val, Str("r")) : sel \in DirectSelectors(n), val \in DirectValues(n)} :
           n \in ActionNames \cup {"bogus"}}

InitExec ==
    /\ max_steps = MaxSteps
    /\ max_retries = DefaultMaxRetries
    /\ llm_callback = "any"
    /\ runs_left = 0
    /\ pc = "tool"
    /\ browser = "open"
    /\ InitAgent
    /\ InitNoServer
    /\ InitPage
    /\ parse_in = EmptyDict
    /\ parse_out = NoParse

DirectExecute ==
    /\ pc = "tool"
    /\ Len(action_history) < MaxDirect
    /\ \E a \in DirectActions : \E op \in PageOps(a) : \E after \in AfterUrls(a, op, page_url) :
         /\ page_url' = after
         /\ action_history' = Append(action_history,
                ExecuteResult(a, op, page_url, after, Len(action_history)))
    /\ UNCHANGED <<pc, parseVars, stdioVars, crawlerVars, envVars, driverVars, extractVars, serverVars>>
    /\ UNCHANGED runVars

NextExec == DirectExecute

SpecExec == InitExec /\ [][NextExec]_vars

-----------------------------------------------------------------------------
(* parse_action_from_dict applied to the mappings a JSON object can give *)

ParseActionValues ==
    {Str(n) : n \in ActionNames} \cup {StrUp(n) : n \in ActionNames}
    \cup {Str(""), Str("fly"), StrUp("fly"), Missing, Null, Num}

ParseDicts ==
    {Dict(a, sel, val, rsn) : a \in ParseActionValues, sel \in {Missing, Str("#a")},
                              val \in {Missing, Str("1")}, rsn \in {Missing, Str("r")}}

InitParse ==
    /\ max_steps = MaxSteps
    /\ max_retries = DefaultMaxRetries
    /\ llm_callback = "any"
    /\ runs_left = 0
    /\ pc = "parse"
    /\ browser = "open"
    /\ InitAgent
    /\ InitNoServer
    /\ InitPage
    /\ parse_in \in ParseDicts
    /\ parse_out = NoParse

ParseCall ==
    /\ pc = "parse"
    /\ parse_out' = parse_action_from_dict(parse_in)
    /\ pc' = "parsed"
    /\ UNCHANGED <<parse_in, stdioVars, crawlerVars, page_url, action_history, envVars, driverVars, extractVars,
                   serverVars>>
    /\ UNCHANGED runVars

NextParse == ParseCall

SpecParse == InitParse /\ [][NextParse]_vars

-----------------------------------------------------------------------------
(* run on agents constructed with AgentConfig(max_retries=n) *)

InitRetries ==
    /\ max_steps \in 0..MaxSteps
    /\ max_retries \in 1..MaxRetries
    /\ llm_callback = "any"
    /\ runs_left = 1
    /\ pc = "idle"
    /\ browser = "none"
    /\ InitAgent
    /\ InitNoServer
    /\ InitPage
    /\ parse_in = EmptyDict
    /\ parse_out = NoParse

SpecRetries == InitRetries /\ [][Next]_vars

-----------------------------------------------------------------------------
(* SnapshotExtractor.extract on a page of up to MaxElems candidates, and    *)
(* snapshot_to_text on what it returned                                     *)

RECURSIVE SeqsUpTo(_, _)
SeqsUpTo(S, n) ==
    IF n = 0 THEN {<<>>}
    ELSE SeqsUpTo(S, n - 1) \cup {Append(q, x) : q \in SeqsUpTo(S, n - 1), x \in S}

InitExtract ==
    /\ max_steps = MaxSteps
    /\ max_retries = DefaultMaxRetries
    /\ llm_callback = "any"
    /\ runs_left = 0
    /\ pc = "extract"
    /\ browser = "open"
    /\ InitAgent
    /\ InitNoServer
    /\ parse_in = EmptyDict
    /\ parse_out = NoParse
    /\ dom \in SeqsUpTo(Candidates, MaxElems)
    /\ page_forms \in 0..1
    /\ element_index = 0
    /\ snapshot = NoSnapshot
    /\ page_fault = "none"
    /\ max_elements = 0
    /\ text = <<>>
    /\ handle = NoHandle
    /\ element = NoClassification

\* one extract call, whole: the reset of element_index, the title, the elements
Extract ==
    /\ pc \in {"extract", "extracted", "rendered"}
    /\ \E f \in ExtractFaults :
         /\ page_fault' = f
         /\ snapshot' = extract(page_url, dom, page_forms, f)
         /\ element_index' = IndexAfterExtract(dom, f)
         /\ pc' = IF f = "title" THEN "extract" ELSE "extracted"
    /\ UNCHANGED <<max_elements, text, handle, element>>
    /\ UNCHANGED <<dom, page_forms, page_url, action_history, parseVars, stdioVars, crawlerVars, envVars, driverVars,
                   serverVars>>
    /\ UNCHANGED runVars

\* snapshot_to_text(snapshot, max_elements) on the snapshot just extracted
Render ==
    /\ pc = "extracted"
    /\ \E m \in 0..MaxRender :
         /\ max_elements' = m
         /\ text' = snapshot_to_text(snapshot, m)
    /\ pc' = "rendered"
    /\ UNCHANGED <<dom, page_forms, element_index, snapshot, page_fault, handle, element>>
    /\ UNCHANGED <<page_url, action_history, parseVars, stdioVars, crawlerVars, envVars, driverVars, serverVars>>
    /\ UNCHANGED runVars

NextExtract == Extract \/ Render

SpecExtract == InitExtract /\ [][NextExtract]_vars

-----------------------------------------------------------------------------
(* one run of ScriptedSteps steps on an agent whose callback always answers *)
(* with one of the ScriptedDicts                                            *)

InitScripted ==
    /\ max_steps = ScriptedSteps
    /\ max_retries = DefaultMaxRetries
    /\ llm_callback = "scripted"
    /\ runs_left = 1
    /\ pc = "idle"
    /\ browser = "none"
    /\ InitAgent
    /\ InitNoServer
    /\ InitPage
    /\ parse_in = EmptyDict
    /\ parse_out = NoParse

SpecScripted == InitScripted /\ [][Next]_vars

-----------------------------------------------------------------------------
(* MaxRuns run calls, one after the other, on the same agent *)

InitRuns ==
    /\ max_steps = MaxSteps
    /\ max_retries = DefaultMaxRetries
    /\ llm_callback = "scripted"
    /\ runs_left = MaxRuns
    /\ pc = "idle"
    /\ browser = "none"
    /\ InitAgent
    /\ InitNoServer
    /\ InitPage
    /\ parse_in = EmptyDict
    /\ parse_out = NoParse

SpecRuns == InitRuns /\ [][Next]_vars

-----------------------------------------------------------------------------
(* bua_server.py: run_mcp_server reading tools/call requests from stdin,    *)
(* handle_mcp_request and execute_tool on the shared agent                  *)

ToolNames == {"browser_agent_run", "browser_navigate", "browser_snapshot",
              "browser_click", "browser_type", "browser_screenshot"}

\* tools that make one BrowserTools.execute call
ExecuteTools == {"browser_navigate", "browser_click", "browser_type", "browser_screenshot"}

\* params.name as a client can send it; "browser_fly" is a name outside TOOLS
RequestedTools == ToolNames \cup {"browser_fly"}

\* the Action execute_tool builds from the arguments, present or absent
ToolActions(tool) ==
    CASE tool = "browser_navigate" ->
            {Action("navigate", Null, v, Str("")) : v \in {Null, Str("u1")}}
      [] tool = "browser_click" ->
            {Action("click", sel, Null, Str("")) : sel \in {Null, Str("#a")}}
      [] tool = "browser_type" ->
            {Action("type", sel, v, Str("")) : sel \in {Null, Str("#a")}, v \in {Null, Str("v")}}
      [] OTHER ->
            {Action("screenshot", Null, v, Str("")) : v \in {Str("screenshot.png"), Str("f.png")}}

\* the keys of the mapping execute_tool returns
ToolResultKeys(tool) ==
    CASE tool = "browser_agent_run" ->
            {"success", "goal", "steps", "history", "page_summaries", "final_url"}
      [] tool = "browser_navigate" -> {"success", "message", "url"}
      [] tool = "browser_snapshot" ->
            {"url", "title", "page_type", "elements_count", "snapshot_text"}
      [] tool \in {"browser_click", "browser_type"} -> {"success", "message"}
      [] tool = "browser_screenshot" -> {"success", "message", "path"}
      [] OTHER -> {"error"}

\* tools/call answered with "result": the mapping, serialised as its text content
ToolResult(tool) == [kind |-> "result", keys |-> ToolResultKeys(tool)]

\* tools/call answered with "error": {"code": -32000, "message": str(e)}
ToolError == [kind |-> "error", keys |-> {"code", "message"}]

NoToolResponse == [kind |-> "none", keys |-> {}]

AtReadlineAnywhere(p) == TRUE

\* the loop is at sys.stdin.readline() only after `await handle_mcp_request` came back
AtReadline(p) == p = "serve"

InitServer ==
    /\ max_steps = MaxSteps
    /\ max_retries = DefaultMaxRetries
    /\ llm_callback = "terse"
    /\ runs_left = 0
    /\ pc = "serve"
    /\ browser = "none"
    /\ InitAgent
    /\ InitPage
    /\ parse_in = EmptyDict
    /\ parse_out = NoParse
    /\ agent_instance = "none"
    /\ in_flight = 0
    /\ requests_read = 0
    /\ tool_name = ""
    /\ tool_response = NoToolResponse
    /\ line = NoLine
    /\ stdout = <<>>
    /\ InitNoCrawler

\* get_agent awaits initialize on the agent it constructs: an agent that is
\* "ready" holds an open browser, one whose launch raised holds none
BrowserOf(inst) == IF inst = "ready" THEN "open" ELSE "none"

\* readline gives a tools/call request and handle_mcp_request is entered
ReadRequest ==
    /\ AtReadline(pc)
    /\ requests_read < MaxRequests
    /\ requests_read' = requests_read + 1
    /\ in_flight' = in_flight + 1
    /\ \E t \in RequestedTools : tool_name' = t
    /\ tool_response' = NoToolResponse
    /\ pc' = "tool_call"
    /\ UNCHANGED <<agent_instance, page_url, action_history, parseVars, stdioVars, crawlerVars, envVars,
                   driverVars, extractVars>>
    /\ UNCHANGED runVars

\* get_agent on first use, when BrowserUseAgent.initialize raises (the browser
\* does not launch): agent_instance stays assigned and tools/call answers "error"
GetAgentFails ==
    /\ pc = "tool_call"
    /\ agent_instance = "none"
    /\ agent_instance' = "broken"
    /\ tool_response' = ToolError
    /\ in_flight' = in_flight - 1
    /\ pc' = "serve"
    /\ UNCHANGED <<requests_read, tool_name, page_url, action_history, parseVars, stdioVars, crawlerVars,
                   envVars, driverVars, extractVars>>
    /\ UNCHANGED runVars

\* browser_agent_run: agent.run is entered; on an agent without a browser run
\* calls initialize again, and a missing goal makes goal.encode raise
CallRun ==
    /\ pc = "tool_call"
    /\ tool_name = "browser_agent_run"
    /\ \E launched \in BOOLEAN, goal \in {"given", "absent"} :
         IF agent_instance = "broken" /\ ~launched
         THEN /\ tool_response' = ToolError
              /\ in_flight' = in_flight - 1
              /\ pc' = "serve"
              /\ UNCHANGED <<agent_instance, runs_left>>
         ELSE /\ agent_instance' = "ready"
              /\ IF goal = "absent"
                 THEN /\ tool_response' = ToolError
                      /\ in_flight' = in_flight - 1
                      /\ pc' = "serve"
                      /\ UNCHANGED runs_left
                 ELSE /\ pc' = "idle"
                      /\ runs_left' = 1
                      /\ UNCHANGED <<tool_response, in_flight>>
    /\ UNCHANGED <<requests_read, tool_name, page_url, action_history, parseVars, stdioVars, crawlerVars,
                   configVars, summaries_before, extractVars>>
    /\ browser' = BrowserOf(agent_instance')
    /\ UNCHANGED runVars

\* the run has returned its result, or an exception has unwound out of it
RunResponse ==
    /\ pc \in {"returned", "raised"}
    /\ in_flight > 0
    /\ tool_response' = IF pc = "returned" THEN ToolResult(tool_name) ELSE ToolError
    /\ in_flight' = in_flight - 1
    /\ pc' = "serve"
    /\ UNCHANGED <<agent_instance, requests_read, tool_name, page_url, action_history,
                   parseVars, stdioVars, crawlerVars, envVars, driverVars, extractVars>>
    /\ UNCHANGED runVars

\* browser_navigate, browser_click, browser_type, browser_screenshot: one execute
\* call; on an agent whose initialize raised, agent.tools is None
CallExecute ==
    /\ pc = "tool_call"
    /\ tool_name \in ExecuteTools
    /\ IF agent_instance = "broken"
       THEN /\ tool_response' = ToolError
            /\ UNCHANGED <<agent_instance, page_url, action_history>>
       ELSE /\ agent_instance' = "ready"
            /\ tool_response' = ToolResult(tool_name)
            /\ \E a \in ToolActions(tool_name) : \E op \in PageOps(a) :
               \E after \in AfterUrls(a, op, page_url) :
                 /\ page_url' = after
                 /\ action_history' = Append(action_history,
                        ExecuteResult(a, op, page_url, after, Len(action_history)))
    /\ in_flight' = in_flight - 1
    /\ pc' = "serve"
    /\ UNCHANGED <<requests_read, tool_name, parseVars, stdioVars, crawlerVars, configVars, driverVars, extractVars>>
    /\ browser' = BrowserOf(agent_instance')
    /\ UNCHANGED runVars

\* browser_snapshot: one extract call, whose exception goes to handle_mcp_request
CallSnapshot ==
    /\ pc = "tool_call"
    /\ tool_name = "browser_snapshot"
    /\ IF agent_instance = "broken"
       THEN /\ tool_response' = ToolError
            /\ UNCHANGED <<agent_instance, extractVars>>
       ELSE /\ agent_instance' = "ready"
            /\ \E f \in ExtractFaults :
                 /\ page_fault' = f
                 /\ snapshot' = extract(page_url, dom, page_forms, f)
                 /\ element_index' = IndexAfterExtract(dom, f)
                 /\ max_elements' = IF f = "title" THEN max_elements ELSE 30
                 /\ text' = IF f = "title" THEN text
                            ELSE snapshot_to_text(extract(page_url, dom, page_forms, f), 30)
                 /\ tool_response' = IF f = "title" THEN ToolError ELSE ToolResult(tool_name)
            /\ UNCHANGED <<dom, page_forms, handle, element>>
    /\ in_flight' = in_flight - 1
    /\ pc' = "serve"
    /\ UNCHANGED <<requests_read, tool_name, page_url, action_history, parseVars, stdioVars, crawlerVars,
                   configVars, driverVars>>
    /\ browser' = BrowserOf(agent_instance')
    /\ UNCHANGED runVars

\* a name outside TOOLS: {"error": "Unknown tool: ..."} is returned as a result
CallUnknown ==
    /\ pc = "tool_call"
    /\ tool_name \notin ToolNames
    /\ agent_instance' = IF agent_instance = "none" THEN "ready" ELSE agent_instance
    /\ tool_response' = ToolResult(tool_name)
    /\ in_flight' = in_flight - 1
    /\ pc' = "serve"
    /\ UNCHANGED <<requests_read, tool_name, page_url, action_history,
                   parseVars, stdioVars, crawlerVars, configVars, driverVars, extractVars>>
    /\ browser' = BrowserOf(agent_instance')
    /\ UNCHANGED runVars

NextServer ==
    \/ ReadRequest \/ GetAgentFails \/ CallRun \/ RunResponse \/ CallExecute
    \/ CallSnapshot \/ CallUnknown
    \/ RunStart \/ LoopTest \/ SnapshotAttempt \/ SelectAction \/ ExecuteStep
    \/ Reflect \/ Return

SpecServer == InitServer /\ [][NextServer]_vars

-----------------------------------------------------------------------------
(* one run on an agent whose callback answers with objects that hold objects *)

InitNesting ==
    /\ max_steps = MaxSteps
    /\ max_retries = DefaultMaxRetries
    /\ llm_callback = "nesting"
    /\ runs_left = 1
    /\ pc = "idle"
    /\ browser = "none"
    /\ InitAgent
    /\ InitNoServer
    /\ InitPage
    /\ parse_in = EmptyDict
    /\ parse_out = NoParse

SpecNesting == InitNesting /\ [][Next]_vars

-----------------------------------------------------------------------------
(* one run of LongSteps steps on an agent whose callback only ever asks for *)
(* a wait, with a number or with a text for its seconds, or for done        *)

InitLong ==
    /\ max_steps = LongSteps
    /\ max_retries = DefaultMaxRetries
    /\ llm_callback = "waiting"
    /\ runs_left = 1
    /\ pc = "idle"
    /\ browser = "none"
    /\ InitAgent
    /\ InitNoServer
    /\ InitPage
    /\ parse_in = EmptyDict
    /\ parse_out = NoParse

SpecLong == InitLong /\ [][Next]_vars

-----------------------------------------------------------------------------
(* initialize, run and close called one after another on one agent, in any  *)
(* order, by a caller that awaits each call before making the next          *)

Between == {"idle", "returned", "raised"}

\* initialize: a new browser, a new page, and new BrowserTools and
\* SnapshotExtractor objects for it
Initialize ==
    /\ pc \in Between
    /\ browser' = "open"
    /\ page_url' = "u0"
    /\ action_history' = <<>>
    /\ element_index' = 0
    /\ UNCHANGED <<pc, configVars, driverVars, parseVars, stdioVars, crawlerVars, serverVars>>
    /\ UNCHANGED <<dom, page_forms, snapshot, page_fault, max_elements, text, handle,
                   element>>
    /\ UNCHANGED runVars

\* close: self.browser.close() when the agent holds a browser; no attribute
\* of the agent is assigned
Close ==
    /\ pc \in Between
    /\ browser' = IF browser = "none" THEN "none" ELSE "closed"
    /\ UNCHANGED <<pc, configVars, driverVars, parseVars, stdioVars, crawlerVars, extractVars, serverVars>>
    /\ UNCHANGED <<page_url, action_history>>
    /\ UNCHANGED runVars

InitLifecycle ==
    /\ max_steps = 1
    /\ max_retries = DefaultMaxRetries
    /\ llm_callback = "terse"
    /\ runs_left = MaxRuns
    /\ pc = "idle"
    /\ browser = "none"
    /\ InitAgent
    /\ InitNoServer
    /\ InitPage
    /\ parse_in = EmptyDict
    /\ parse_out = NoParse

NextLifecycle == Next \/ Initialize \/ Close

SpecLifecycle == InitLifecycle /\ [][NextLifecycle]_vars

-----------------------------------------------------------------------------
(* _extract_element_info on one visible handle with a box: the selector and *)
(* the clickable / editable classification of every attribute combination   *)

Handles ==
    [tag : ElementTags, id : AttrValues, name : AttrValues, testid : AttrValues,
     role : RoleValues, onclick : {Null, Str("x")},
     classList : SeqsUpTo(ClassNames, MaxClasses), isContentEditable : BOOLEAN]

InitElement ==
    /\ max_steps = MaxSteps
    /\ max_retries = DefaultMaxRetries
    /\ llm_callback = "any"
    /\ runs_left = 0
    /\ pc = "inspect"
    /\ browser = "open"
    /\ InitAgent
    /\ InitNoServer
    /\ parse_in = EmptyDict
    /\ parse_out = NoParse
    /\ dom = <<>>
    /\ page_forms = 0
    /\ element_index = 0
    /\ snapshot = NoSnapshot
    /\ page_fault = "none"
    /\ max_elements = 0
    /\ text = <<>>
    /\ handle \in Handles
    /\ element = NoClassification

ExtractElementInfo ==
    /\ pc = "inspect"
    /\ element' = [selector |-> _generate_selector(handle),
                   is_clickable |-> is_clickable(handle),
                   is_editable |-> is_editable(handle)]
    /\ element_index' = element_index + 1
    /\ pc' = "inspected"
    /\ UNCHANGED <<dom, page_forms, snapshot, page_fault, max_elements, text, handle>>
    /\ UNCHANGED <<page_url, action_history, parseVars, stdioVars, crawlerVars, envVars, driverVars, serverVars>>
    /\ UNCHANGED runVars

NextElement == ExtractElementInfo

SpecElement == InitElement /\ [][NextElement]_vars

-----------------------------------------------------------------------------
(* bua_server.py: the loop of run_mcp_server line by line, with what        *)
(* handle_mcp_request answers to each method.  The tool behind a tools/call *)
(* either returns or raises.                                                *)

Methods == {"initialize", "tools/list", "tools/call", "notifications/initialized",
            "ping", "absent"}

\* "eof": readline gave ""; "blank": only white space; "text": not JSON;
\* value "array": JSON that is not an object; params "null": "params": null;
\* id 0: the request has no id
Lines ==
    {[kind |-> k, value |-> "", method |-> "", params |-> "", id |-> 0, tool |-> ""] :
        k \in {"eof", "blank", "text"}}
    \cup {[kind |-> "json", value |-> "array", method |-> "", params |-> "", id |-> 0,
           tool |-> ""]}
    \cup [kind : {"json"}, value : {"object"}, method : Methods,
          params : {"absent", "object", "null"}, id : 0..2, tool : {"returns", "raises"}]

NoResponseLine == [kind |-> "none", code |-> 0, id |-> 0]

\* an exception that handle_mcp_request lets through to run_mcp_server
HandlerRaised == [kind |-> "raised", code |-> 0, id |-> 0]

\* params = request.get("params", {}); in the tools/call branch params.get("name")
\* comes before the try
handle_mcp_request(req) ==
    CASE req.method \in {"initialize", "tools/list"} ->
            [kind |-> "result", code |-> 0, id |-> req.id]
      [] req.method = "tools/call" ->
            IF req.params = "null" THEN HandlerRaised
            ELSE IF req.tool = "raises"
                 THEN [kind |-> "error", code |-> -32000, id |-> req.id]
                 ELSE [kind |-> "result", code |-> 0, id |-> req.id]
      [] req.method = "notifications/initialized" -> NoResponseLine
      [] OTHER -> [kind |-> "error", code |-> -32601, id |-> req.id]

InitStdio ==
    /\ max_steps = MaxSteps
    /\ max_retries = DefaultMaxRetries
    /\ llm_callback = "terse"
    /\ runs_left = 0
    /\ pc = "readline"
    /\ browser = "none"
    /\ InitAgent
    /\ InitPage
    /\ parse_in = EmptyDict
    /\ parse_out = NoParse
    /\ agent_instance = "none"
    /\ in_flight = 0
    /\ requests_read = 0
    /\ tool_name = ""
    /\ tool_response = NoToolResponse
    /\ line = NoLine
    /\ stdout = <<>>
    /\ InitNoCrawler

\* line = sys.stdin.readline()
ReadLine ==
    /\ pc = "readline"
    /\ requests_read < MaxRequests
    /\ requests_read' = requests_read + 1
    /\ \E l \in Lines : line' = l
    /\ pc' = "handle"
    /\ UNCHANGED <<stdout, agent_instance, in_flight, tool_name, tool_response>>
    /\ UNCHANGED <<page_url, action_history, parseVars, crawlerVars, envVars, driverVars, extractVars>>
    /\ UNCHANGED runVars

\* the rest of the loop body: the end-of-input and blank tests, json.loads,
\* request.get('method'), handle_mcp_request and the print of its response;
\* JSONDecodeError goes on with the next line, any other exception leaves the loop
HandleLine ==
    /\ pc = "handle"
    /\ CASE line.kind = "eof" -> pc' = "stopped" /\ UNCHANGED stdout
         [] line.kind \in {"blank", "text"} -> pc' = "readline" /\ UNCHANGED stdout
         [] line.value = "array" -> pc' = "stopped" /\ UNCHANGED stdout
         [] OTHER ->
              LET resp == handle_mcp_request(line)
              IN CASE resp = HandlerRaised -> pc' = "stopped" /\ UNCHANGED stdout
                   [] resp = NoResponseLine -> pc' = "readline" /\ UNCHANGED stdout
                   [] OTHER -> pc' = "readline" /\ stdout' = Append(stdout, resp)
    /\ UNCHANGED <<line, serverVars>>
    /\ UNCHANGED <<page_url, action_history, parseVars, crawlerVars, envVars, driverVars, extractVars>>
    /\ UNCHANGED runVars

NextStdio == ReadLine \/ HandleLine

SpecStdio == InitStdio /\ [][NextStdio]_vars

-----------------------------------------------------------------------------
(* book_crawler.py and server.py: login, request_pickup, get_my_loans and   *)
(* the page-reading operations called one after another on the one          *)
(* BookCrawler of the process.  A location string is the sequence of its    *)
(* syllables.                                                               *)

\* "농학도서관", "법학도서관", "의학도서관": the keys of branch_codes, in order
Nonghak == <<"nong", "hak", "do", "seo", "gwan">>

Beophak == <<"beop", "hak", "do", "seo", "gwan">>

Uihak == <<"ui", "hak", "do", "seo", "gwan">>

\* "중앙도서관"
Jungang == <<"jung", "ang", "do", "seo", "gwan">>

branch_codes == <<Nonghak, Beophak, Uihak>>

NoBranch == <<"?">>

\* a in b, for strings
IsSubstring(a, b) ==
    \E i \in 0..(Len(b) - Len(a)) : SubSeq(b, i + 1, i + Len(a)) = a

RECURSIVE LStrip(_)
LStrip(str) == IF str # <<>> /\ Head(str) = " " THEN LStrip(Tail(str)) ELSE str

RECURSIVE RStrip(_)
RStrip(str) ==
    IF str # <<>> /\ str[Len(str)] = " " THEN RStrip(SubSeq(str, 1, Len(str) - 1)) ELSE str

\* pickup_location.strip()
Strip(str) == RStrip(LStrip(str))

\* the first key of branch_codes that contains the input or is contained in it
PartialMatches(loc) ==
    {i \in DOMAIN branch_codes :
        IsSubstring(loc, branch_codes[i]) \/ IsSubstring(branch_codes[i], loc)}

\* location_normalized, or NoBranch where request_pickup returns "unsupported"
Normalized(pickup_location) ==
    LET loc == Strip(pickup_location)
    IN IF \E i \in DOMAIN branch_codes : branch_codes[i] = loc THEN loc
       ELSE IF PartialMatches(loc) = {} THEN NoBranch
       ELSE branch_codes[CHOOSE i \in PartialMatches(loc) :
                            \A j \in PartialMatches(loc) : i <= j]

\* the default of pickup_location in the inputSchema of request_book_pickup
SchemaDefault == Nonghak

\* async def request_pickup_async(book_id, pickup_location="중앙도서관")
request_pickup_async_default == Jungang

\* arguments of a request_book_pickup tool call: pickup_location left out, or given
Omitted == <<"omitted">>

PickupArguments ==
    {Omitted, Nonghak, Beophak, Uihak, Jungang, <<"beop", "hak">>,
     <<" ">> \o Uihak \o <<" ">>, <<"do", "seo", "gwan">>}

\* call_tool: request_pickup_async(**arguments)
PickupLocation(arg) == IF arg = Omitted THEN request_pickup_async_default ELSE arg

\* what the library site does once request_pickup has navigated
PickupOutcomes == {"requested", "unavailable", "no_link", "no_button", "refused", "raise"}

LoginRequired(op, arg) ==
    [op |-> op, omitted |-> arg = Omitted, location |-> <<>>, success |-> FALSE,
     message |-> "login_required", navigated |-> FALSE]

request_pickup_unguarded(logged_in, arg, page) ==
    IF Normalized(PickupLocation(arg)) = NoBranch
    THEN [op |-> "request_pickup", omitted |-> arg = Omitted, location |-> NoBranch,
          success |-> FALSE, message |-> "unsupported_branch", navigated |-> FALSE]
    ELSE [op |-> "request_pickup", omitted |-> arg = Omitted,
          location |-> Normalized(PickupLocation(arg)),
          success |-> page = "requested", message |-> page, navigated |-> TRUE]

\* BookCrawler.request_pickup behind the request_book_pickup tool
request_pickup(logged_in, arg, page) ==
    IF ~logged_in THEN LoginRequired("request_pickup", arg)
    ELSE IF Normalized(PickupLocation(arg)) = NoBranch
    THEN [op |-> "request_pickup", omitted |-> arg = Omitted, location |-> NoBranch,
          success |-> FALSE, message |-> "unsupported_branch", navigated |-> FALSE]
    ELSE [op |-> "request_pickup", omitted |-> arg = Omitted,
          location |-> Normalized(PickupLocation(arg)),
          success |-> page = "requested", message |-> page, navigated |-> TRUE]

\* BookCrawler.get_my_loans
get_my_loans(logged_in, page) ==
    IF ~logged_in THEN LoginRequired("get_my_loans", <<>>)
    ELSE [op |-> "get_my_loans", omitted |-> FALSE, location |-> <<>>,
          success |-> page = "listed", message |-> page, navigated |-> TRUE]

InitCrawler ==
    /\ max_steps = MaxSteps
    /\ max_retries = DefaultMaxRetries
    /\ llm_callback = "any"
    /\ runs_left = 0
    /\ pc = "crawler"
    /\ browser = "open"
    /\ InitAgent
    /\ InitNoServer
    /\ InitPage
    /\ parse_in = EmptyDict
    /\ parse_out = NoParse

\* BookCrawler.login: the flag is set on the one path that returns success
Login ==
    /\ pc = "crawler"
    /\ crawler_calls < MaxCalls
    /\ crawler_calls' = crawler_calls + 1
    /\ \E page \in {"logged_in", "rejected", "raise"} :
         /\ is_logged_in' = IF page = "logged_in" THEN TRUE ELSE is_logged_in
         /\ crawler_result' = [op |-> "login", omitted |-> FALSE, location |-> <<>>,
                               success |-> page = "logged_in", message |-> page,
                               navigated |-> TRUE]
    /\ UNCHANGED <<pc, page_url, action_history, parseVars, stdioVars, envVars, driverVars,
                   extractVars, serverVars>>
    /\ UNCHANGED runVars

RequestPickup ==
    /\ pc = "crawler"
    /\ crawler_calls < MaxCalls
    /\ crawler_calls' = crawler_calls + 1
    /\ \E arg \in PickupArguments, page \in PickupOutcomes :
         crawler_result' = request_pickup(is_logged_in, arg, page)
    /\ UNCHANGED <<pc, is_logged_in, page_url, action_history, parseVars, stdioVars, envVars,
                   driverVars, extractVars, serverVars>>
    /\ UNCHANGED runVars

GetMyLoans ==
    /\ pc = "crawler"
    /\ crawler_calls < MaxCalls
    /\ crawler_calls' = crawler_calls + 1
    /\ \E page \in {"listed", "raise"} :
         crawler_result' = get_my_loans(is_logged_in, page)
    /\ UNCHANGED <<pc, is_logged_in, page_url, action_history, parseVars, stdioVars, envVars,
                   driverVars, extractVars, serverVars>>
    /\ UNCHANGED runVars

\* search_book, get_book_detail and check_availability read pages and leave
\* the login flag alone
Browse ==
    /\ pc = "crawler"
    /\ crawler_calls < MaxCalls
    /\ crawler_calls' = crawler_calls + 1
    /\ \E op \in {"search_book", "get_book_detail", "check_availability"}, ok \in BOOLEAN :
         crawler_result' = [op |-> op, omitted |-> FALSE, location |-> <<>>, success |-> ok,
                            message |-> IF ok THEN "found" ELSE "raise", navigated |-> TRUE]
    /\ UNCHANGED <<pc, is_logged_in, page_url, action_history, parseVars, stdioVars, envVars,
                   driverVars, extractVars, serverVars>>
    /\ UNCHANGED runVars

NextCrawler == Login \/ RequestPickup \/ GetMyLoans \/ Browse

SpecCrawler == InitCrawler /\ [][NextCrawler]_vars

-----------------------------------------------------------------------------
(* Properties *)

Last(seq) == seq[Len(seq)]

Ended == pc \in {"returned", "raised"}

\* C1: during a run the number of StepRecords in step_history never exceeds
\* max_steps, and the loop body is entered (step is incremented) at most
\* max_steps times.
C1_StepBudget == Len(step_history) <= max_steps /\ step <= max_steps

C1_Witness == pc = "returned" /\ max_steps >= 2 /\ Len(step_history) = max_steps

\* C2: when the selected action parses to done, the iteration records the done
\* step as the last StepRecord and leaves the loop; from then on nothing but the
\* return happens (no snapshot attempt, LLM call, reflection or execution) and
\* the result reports success = true, also on the iteration numbered max_steps.
C2_DoneStops ==
    [][/\ (pc = "execute" /\ ~parse_action_from_dict(action_dict).raised
             /\ parse_action_from_dict(action_dict).act.kind = "done")
          => /\ pc' = "finish"
             /\ exit' = "done"
             /\ Len(step_history') = Len(step_history) + 1
             /\ Last(step_history').step = step
             /\ Last(step_history').action = action_dict
       /\ (pc = "finish" /\ exit = "done")
          => /\ pc' = "returned"
             /\ UNCHANGED <<step_history, action_history, page_url, llm_calls,
                            reflections, retry, step>>
             /\ result'.success = TRUE
             /\ result'.history = step_history
      ]_vars

C2_Witness ==
    /\ pc = "returned" /\ exit = "done" /\ step = max_steps /\ step >= 2
    /\ result.success /\ Last(result.history).action.action = StrUp("done")

\* C3: a run that ends by a fatal abort (snapshot retries exhausted, or no
\* parseable action object in the LLM response) on iteration k reports
\* success = false and a history of exactly the k-1 records made before it.
C3_AbortReportsFailure ==
    (pc = "returned" /\ exit \in {"snapshot", "select"})
    => /\ result.success = FALSE
       /\ Len(result.history) = step - 1
       /\ \A i \in 1..Len(result.history) : result.history[i].step = i

\* C4: when _select_action gives no action object in iteration k, the run goes
\* straight to its return: step_history, the page location and
\* tools.action_history stay as they were when selection started, no StepRecord
\* is appended, and the result has steps = k and len(history) = k - 1.
C4_SelectionFailureFrame ==
    [][/\ (pc = "select" /\ response'.t \in {"prose", "badjson"})
          => /\ pc' = "finish"
             /\ UNCHANGED <<step_history, page_url, action_history, step>>
       /\ (pc = "finish" /\ response.t \in {"prose", "badjson"})
          => /\ pc' = "returned"
             /\ UNCHANGED <<step_history, page_url, action_history, step>>
             /\ result'.steps = step
             /\ Len(result'.history) = step - 1
             /\ Len(step_history) = step - 1
      ]_vars

C4_Witness ==
    /\ pc = "returned" /\ response.t = "prose" /\ result.steps = 2
    /\ Len(result.history) = 1 /\ Len(action_history) = 2

\* C5: a run in which every snapshot extraction and every action selection
\* succeeds and done is never selected ends after exactly max_steps iterations
\* with max_steps StepRecords, and its result reports steps = max_steps and
\* success = false.
C5_BudgetExhaustion ==
    (/\ Ended
     /\ exit \notin {"snapshot", "select", "select_empty", "done"}
     /\ fault \notin {"select_callback", "select_nontext"})
    => /\ pc = "returned"
       /\ step = max_steps
       /\ Len(step_history) = max_steps
       /\ result.steps = max_steps
       /\ result.success = FALSE

\* C6: provided every external call returns (no callback raised), a run always
\* comes to return a result, and it has left the loop because done was
\* selected, the step budget was used up, or a fatal abort occurred.
C6_ReturnsForThreeReasons ==
    \/ fault \in {"select_callback", "reflect_callback"}
    \/ pc = "idle"
    \/ pc = "returned" /\ result.returned
         /\ exit \in {"done", "budget", "snapshot", "select", "select_empty"}
    \/ pc \notin {"returned", "raised"} /\ ENABLED Next

\* C7: every execute call returns an ActionResult (it is appended to
\* action_history, whatever the kind and whatever the page operation did) whose
\* before_url is the page location at the call and whose after_url is the page
\* location at the return.
C7_ExecuteUrls ==
    [][/\ (pc = "tool" /\ Len(action_history) < MaxDirect)
          => Len(action_history') = Len(action_history) + 1
       /\ Len(action_history') = Len(action_history) + 1
          => /\ Last(action_history').before_url = page_url
             /\ Last(action_history').after_url = page_url'
      ]_vars

C7_Witness ==
    \E i \in 1..Len(action_history) :
        /\ ~action_history[i].success
        /\ action_history[i].before_url # action_history[i].after_url
        /\ action_history[i].action.kind = "click"

\* C8: a step whose execution fails and whose kind is not done appends a
\* StepRecord with success = false, makes exactly one reflection call, and does
\* not end the run: the run goes back to the loop test, and enters the next
\* iteration when the step number is below max_steps.
C8_FailedStepContinues ==
    [][/\ (pc = "execute" /\ pc' # "raised" /\ ~Last(action_history').success)
          => /\ Last(step_history').success = FALSE
             /\ Last(step_history').step = step
             /\ pc' = "reflect"
       /\ pc = "reflect"
          => /\ reflections' = reflections + 1
             /\ pc' = "loop"
       /\ (pc = "loop" /\ is_running /\ step < max_steps)
          => pc' = "snapshot" /\ step' = step + 1
      ]_vars

\* C9: however a run ends, it returns the result mapping to its caller; no
\* exception unwinds out of run.
C9_RunAlwaysReturns == Ended => (pc = "returned" /\ result.returned)

\* C10: parse_action_from_dict never raises; it returns kind wait for every
\* mapping whose "action" entry is not one of the 11 known names in any letter
\* case (missing, empty, null and number included) and the matching kind for a
\* known name.
C10_ParseTotal ==
    pc = "parsed"
    => /\ ~parse_out.raised
       /\ parse_out.act.kind =
             IF parse_in.action.t = "str" /\ parse_in.action.s \in ActionNames
             THEN parse_in.action.s ELSE "wait"

\* C11: in each loop iteration snapshot extraction is attempted at most
\* config.max_retries times and stops at the first attempt that succeeds; when
\* all config.max_retries attempts fail the run aborts in that iteration with
\* no LLM call and no executed Action in it.
C11_RetriesFollowConfig ==
    /\ retry <= max_retries
    /\ pc = "select" => retry >= 1
    /\ exit = "snapshot"
       => /\ retry = max_retries
          /\ Len(step_history) = step - 1
          /\ llm_calls = (step - 1) + reflections

\* a candidate that is visible, has a bounding box of non-zero width and height,
\* answers its calls and is not of a blocklisted tag
Showable(c) ==
    /\ c.visible
    /\ c.geom \in {"tiny", "ok"}
    /\ c.tag \notin {"script", "style", "noscript", "meta", "link", "head"}

AnchorAndHiddenButton ==
    <<[tag |-> "a", visible |-> TRUE, geom |-> "ok"],
      [tag |-> "button", visible |-> FALSE, geom |-> "ok"]>>

\* C12: extract leaves out an individual element whose extraction fails and
\* still returns a snapshot of the others; when the enumeration of the
\* interactive elements fails as a whole, extract signals the failure to its
\* caller instead of returning a snapshot with an empty element list.
C12_ExtractFailures ==
    /\ (pc \in {"extracted", "rendered"} /\ page_fault = "none")
       => /\ ~snapshot.raised
          /\ Len(snapshot.elements) = Len(SelectSeq(dom, Showable))
    /\ page_fault = "query"
       => /\ snapshot.raised
          /\ pc = "extract"

\* C19: every ElementInfo of a snapshot returned by extract comes from an
\* element that was visible and had a bounding box of non-zero width and
\* non-zero height when it was extracted, and carries is_visible = true; no
\* hidden element and no blocklisted tag appears, and a page with one visible
\* anchor and one hidden button gives exactly one element.
C19_OnlyVisibleElements ==
    pc \in {"extracted", "rendered"}
    => LET shown == SelectSeq(dom, Showable)
           elems == snapshot.elements
       IN /\ Len(elems) <= Len(shown)
          /\ page_fault = "none" => Len(elems) = Len(shown)
          /\ \A i \in 1..Len(elems) :
                /\ elems[i].tag = shown[i].tag
                /\ elems[i].is_visible = TRUE
                /\ elems[i].tag \notin IGNORE_TAGS
          /\ (dom = AnchorAndHiddenButton /\ page_fault = "none")
             => (Len(elems) = 1 /\ elems[1].tag = "a")

C19_Witness ==
    /\ pc = "extracted" /\ page_fault = "none"
    /\ dom = AnchorAndHiddenButton
    /\ Len(snapshot.elements) = 1 /\ snapshot.elements[1].is_visible

\* C20: snapshot_to_text(snapshot, max_elements) emits at most max_elements
\* element lines; when len(elements) > max_elements the output has exactly one
\* truncation line and its count is len(elements) - max_elements, and when
\* len(elements) <= max_elements it has none.
C20_TruncationLine ==
    pc = "rendered"
    => LET elemLines == {i \in DOMAIN text : text[i].k = "elem"}
           moreLines == {i \in DOMAIN text : text[i].k = "more"}
           n == Len(snapshot.elements)
       IN /\ Cardinality(elemLines) <= max_elements
          /\ n > max_elements
             => /\ Cardinality(moreLines) = 1
                /\ \A i \in moreLines : text[i].n = n - max_elements
          /\ n <= max_elements => moreLines = {}

C20_Witness ==
    /\ pc = "rendered" /\ Len(snapshot.elements) = 2 /\ max_elements = 1
    /\ \E i \in DOMAIN text : text[i] = Line("more", 1)
    /\ Cardinality({i \in DOMAIN text : text[i].k = "elem"}) = 1

\* C13: every entry of completed_actions in every PageSummary is built from a
\* StepRecord of the current run whose execution succeeded and whose executed
\* Action kind was not wait, whatever action name the LLM wrote; the list holds
\* at most 5 entries.
C13_CompletedActions ==
    \A i \in DOMAIN page_summaries :
        LET done == page_summaries[i].completed_actions
        IN /\ Len(done) <= 5
           /\ \A j \in DOMAIN done :
                 \E k \in DOMAIN step_history :
                    LET r == step_history[k]
                        p == parse_action_from_dict(r.action)
                    IN /\ r.success
                       /\ ~p.raised
                       /\ p.act.kind # "wait"
                       /\ done[j] = CompletedEntry(r)

\* C14: at the start of every iteration after the first, exactly one PageSummary
\* is appended when the page location differs from the location the previous
\* iteration recorded as last location, and its url is that recorded location;
\* none is appended when the location is unchanged, none on the first iteration,
\* and none anywhere else in the loop.  The previous iteration records the
\* location it started on, so a location change made by the action of step 1
\* gives exactly one PageSummary at step 2.
C14_SummaryOnTransition ==
    [][/\ (pc = "loop" /\ pc' = "snapshot")
          => IF step >= 1 /\ page_url # last_url
             THEN /\ Len(page_summaries') = Len(page_summaries) + 1
                  /\ SubSeq(page_summaries', 1, Len(page_summaries)) = page_summaries
                  /\ Last(page_summaries').url = last_url
             ELSE page_summaries' = page_summaries
       /\ (pc = "loop" /\ pc' = "snapshot" /\ step = 1
             /\ Last(action_history).before_url # Last(action_history).after_url)
          => Len(page_summaries') = 1
       /\ (pc \in {"execute", "reflect"} /\ pc' = "loop")
          => last_url' = current_url /\ last_url' \in Urls
       /\ ~(pc = "loop" /\ pc' = "snapshot")
          => page_summaries' = page_summaries
      ]_vars

C14_Witness ==
    /\ pc = "snapshot" /\ step = 2
    /\ Len(page_summaries) = 1 /\ page_summaries[1].url = "u0"
    /\ page_url = "u1" /\ step_history[1].step = 1

\* C15: the step history and the page summaries belong to one run call: in the
\* result of every run, of any sequence of runs on the same agent, history
\* holds only records made during that run and page_summaries only summaries
\* made during that run, and the first prompt of a run carries no PageSummary
\* context of an earlier run.
C15_RunOwnsItsRecords ==
    /\ pc = "returned"
       => /\ result.history = step_history
          /\ \A i \in DOMAIN result.history : result.history[i].step = i
          /\ result.page_summaries =
                SubSeq(page_summaries, summaries_before + 1, Len(page_summaries))
    /\ (pc = "select" /\ step = 1) => PromptContext(page_summaries) = NoContext

\* C18: every ActionResult with success = false that execute returns for click,
\* type, select or hover (selector missing, malformed or timed out) carries a
\* non-empty error string, and every ActionResult with success = true has
\* error unset.
C18_ErrorField ==
    \A i \in DOMAIN action_history :
        LET r == action_history[i]
        IN /\ (r.action.kind \in {"click", "type", "select", "hover"} /\ ~r.success)
              => r.error \notin {NoError, ""}
           /\ r.success => r.error = NoError

C18_Witness ==
    /\ Len(action_history) = 2
    /\ action_history[1].action.kind = "hover" /\ ~action_history[1].success
    /\ action_history[1].action.selector = Null
    /\ action_history[1].error = "Element not found"
    /\ action_history[2].action.kind = "type" /\ action_history[2].success
    /\ action_history[2].error = NoError

\* C16: for every tool name, catalogued or not, and every outcome of the
\* operation behind it, what tools/call gives back for execute_tool is a JSON
\* object with a success flag and a message or error field; an exception inside
\* the tool is not passed on without that shape.
C16_ToolCallShape ==
    (pc = "serve" /\ requests_read > 0)
    => /\ tool_response.kind = "result"
       /\ "success" \in tool_response.keys
       /\ tool_response.keys \cap {"message", "error"} # {}

\* C17: at most one Action is in flight against the agent's page: the server
\* reads a request only when the one before has been answered, Actions are
\* executed one at a time and only inside the request being handled, a whole
\* browser_agent_run is answered only once it has returned or raised, and inside
\* a run the snapshot, selection, execution and recording of a step come in this
\* order and are over before the next step starts.
C17_OneActionInFlight ==
    [][/\ in_flight' <= 1
       /\ in_flight' > in_flight => in_flight = 0
       /\ in_flight' < in_flight
          => (pc' = "serve" /\ pc \in {"tool_call", "returned", "raised"})
       /\ Len(action_history') <= Len(action_history) + 1
       /\ action_history' # action_history => (in_flight = 1 /\ in_flight' <= 1)
       /\ step' = step + 1
          => (pc = "loop" /\ Len(step_history) = step /\ in_flight = 1)
       /\ pc = "snapshot" => pc' \in {"snapshot", "select", "finish"}
       /\ pc = "select" => pc' \in {"execute", "finish", "raised"}
       /\ pc = "execute" => pc' \in {"loop", "reflect", "finish", "raised"}
       /\ pc = "reflect" => pc' \in {"loop", "raised"}
       /\ Len(step_history') > Len(step_history) => pc = "execute"
      ]_vars

C17_Witness ==
    /\ requests_read = 2 /\ in_flight = 1 /\ tool_name = "browser_agent_run"
    /\ pc = "execute" /\ step = 2 /\ Len(step_history) = 1
    /\ Len(action_history) >= 2
    /\ tool_response = NoToolResponse

\* C21: two consecutive extract calls on an unchanged page return the same
\* element list (same tags, visibility flags and geometry, in the same order),
\* and the indices of the second call are 1, 2, ... whatever the first call
\* left in element_index.
C21_ExtractIdempotent ==
    [][(/\ pc \in {"extracted", "rendered"} /\ pc' = "extracted"
        /\ page_fault = "none" /\ page_fault' = "none")
       => /\ snapshot'.elements = snapshot.elements
          /\ \A i \in DOMAIN snapshot'.elements : snapshot'.elements[i].index = i
          /\ element_index' = Len(snapshot'.elements)
      ]_vars

C21_Witness ==
    /\ pc = "extracted" /\ page_fault = "none" /\ text # <<>>
    /\ Len(dom) = 2 /\ Len(snapshot.elements) = 2
    /\ snapshot.elements[2].index = 2 /\ element_index = 2

\* C22: the history of a run result is the full ordered log of the run: its
\* StepRecords are numbered 1, 2, ..., k in order, one per iteration that
\* executed an Action, with k = steps when the run ended by done or by the step
\* budget and k = steps - 1 when it ended by a fatal abort.
C22_HistoryIsTheLog ==
    pc = "returned"
    => /\ result.history = step_history
       /\ \A i \in DOMAIN result.history : result.history[i].step = i
       /\ Len(result.history) =
             IF exit \in {"done", "budget"} THEN result.steps ELSE result.steps - 1
       /\ exit \in {"done", "budget", "snapshot", "select", "select_empty"}
       /\ LET off == Len(action_history) - Len(result.history)
          IN /\ off \in {0, 1}
             /\ \A i \in DOMAIN result.history :
                   /\ result.history[i].success = action_history[off + i].success
                   /\ result.history[i].observation = action_history[off + i].message

C22_Witness ==
    /\ pc = "returned" /\ exit = "snapshot" /\ result.steps = 2
    /\ Len(result.history) = 1 /\ result.history[1].step = 1

\* C23: action selection parses the first brace-balanced {...} object of the
\* response: for a response whose first JSON object holds a nested object, the
\* mapping returned is the whole outer object, and the Action executed is the
\* one its "action" entry names.
C23_OuterObjectSelected ==
    /\ (pc = "execute" /\ response.t = "nested") => action_dict = response.d
    /\ (pc \in {"loop", "reflect"} /\ response.t = "nested" /\ step >= 1)
       => /\ Last(step_history).action = response.d
          /\ Last(action_history).action.kind = response.d.action.s
    /\ (pc = "finish" /\ response.t = "nested") => exit = "done"

\* C24: every LLM response from which a JSON object is parsed leads to an
\* executed and recorded step: an object whose action name is missing or
\* unknown, the empty object {} included, is executed as wait and the loop goes
\* on; only a response with no parseable object is a selection failure that
\* ends the run.
C24_ParsedObjectIsExecuted ==
    [][/\ (pc = "select" /\ response'.t = "json")
          => (pc' = "execute" /\ action_dict' = response'.d)
       /\ (pc = "select" /\ response'.t \in {"prose", "badjson"})
          => pc' = "finish"
       /\ pc = "execute"
          => /\ Len(step_history') = Len(step_history) + 1
             /\ Last(step_history').action = action_dict
             /\ ~(action_dict.action.t = "str" /\ action_dict.action.s \in ActionNames)
                => /\ Last(action_history').action.kind = "wait"
                   /\ pc' \in {"loop", "reflect"}
      ]_vars

\* C25: the completed_actions of a PageSummary for location u hold only actions
\* of steps that were executed while the page was at u: the summary appended
\* for the last location has no more entries than there are successful steps
\* of this run whose execute call started at that location, so after two
\* location changes the later summary holds no action done on the earlier page.
C25_ActionsOfThatPage ==
    [][Len(page_summaries') = Len(page_summaries) + 1
       => LET off == Len(action_history) - Len(step_history)
              here == {k \in DOMAIN step_history :
                         /\ step_history[k].success
                         /\ action_history[off + k].before_url = Last(page_summaries').url}
          IN Len(Last(page_summaries').completed_actions) <= Cardinality(here)
      ]_vars

\* C26: reflection after a failed action changes no loop state: step_history,
\* page_summaries, is_running and the step counter are the same before and
\* after _reflect_on_failure, whatever the callback returns, and the iteration
\* then records as last location the location it started on, exactly as an
\* iteration without reflection does; nothing the next iteration reads is set
\* by the reflection.
C26_ReflectionFrame ==
    [][pc = "reflect"
       => /\ UNCHANGED <<step_history, page_summaries, is_running, step, current_url,
                         page_url, action_history, action_dict, max_steps>>
          /\ reflections' = reflections + 1
          /\ pc' = "loop" => last_url' = current_url
          /\ pc' # "loop" => last_url' = last_url
      ]_vars

C26_Witness ==
    /\ pc = "snapshot" /\ step = 2 /\ reflections = 1
    /\ Len(step_history) = 1 /\ ~step_history[1].success
    /\ last_url = "u0" /\ is_running

C28_ResultCarriesTheAction ==
    [][Len(action_history') = Len(action_history) + 1
       => \E a \in DirectActions : \E op \in PageOps(a) :
             /\ Last(action_history')
                  = ExecuteResult(a, op, page_url, page_url', Len(action_history))
             /\ Last(action_history').action = a]_vars

\* C29: a wait whose value is not a number or is absent, as when an unknown
\* action name without a numeric value was turned into wait, returns success =
\* false with an error; the step is recorded as failed, reflection runs, and
\* the run is not aborted: it goes back to the loop test.
C29_BadWaitIsAFailedStep ==
    [][/\ (/\ pc = "execute" /\ pc' # "raised"
           /\ Last(action_history').action.kind = "wait"
           /\ ~FloatOk(Last(action_history').action.value))
          => /\ ~Last(action_history').success
             /\ Last(action_history').error # NoError
             /\ Last(action_history').after_url = Last(action_history').before_url
             /\ Last(step_history').success = FALSE
             /\ Last(step_history').step = step
             /\ pc' = "reflect"
       /\ (/\ pc = "reflect"
           /\ Last(action_history).action.kind = "wait"
           /\ ~FloatOk(Last(action_history).action.value))
          => /\ reflections' = reflections + 1
             /\ pc' = "loop"
             /\ exit' = exit
      ]_vars

\* C30: across any sequence of initialize, run and close calls on one agent,
\* run never drives a page whose browser has been closed: whenever a run is
\* under way the agent holds an open browser, also when run follows close.
C30_RunHasAnOpenBrowser ==
    pc \in {"loop", "snapshot", "select", "execute", "reflect", "finish"}
    => browser = "open"

\* C31: in every snapshot an extract call returns, the elements carry the
\* indices 1, 2, ..., n in list order, starting again at 1 in each call; a
\* candidate that is skipped (invisible, without area, ignored tag, or failing)
\* uses up no index.
C31_IndicesCountTheElements ==
    pc \in {"extracted", "rendered"}
    => /\ \A i \in DOMAIN snapshot.elements : snapshot.elements[i].index = i
       /\ \A i, j \in DOMAIN snapshot.elements :
             i < j => snapshot.elements[i].index < snapshot.elements[j].index
       /\ element_index = Len(snapshot.elements)
       /\ page_fault = "none" => element_index = Len(SelectSeq(dom, Showable))

C31_Witness ==
    /\ pc = "extracted" /\ page_fault = "none"
    /\ Len(dom) = 2 /\ ~Showable(dom[1]) /\ Showable(dom[2])
    /\ Len(snapshot.elements) = 1 /\ snapshot.elements[1].index = 1

Present(v) == v.t = "str" /\ v.s # ""

\* C32: the selector generated for an element follows the priority id > name
\* (as tag[name='...']) > test-id > tag plus its first two classes > bare tag:
\* for every combination of present and absent id, name, data-testid and
\* classes it has the form of the highest-priority one that is present and
\* non-empty.
C32_SelectorPriority ==
    pc = "inspected"
    => LET sel == element.selector
       IN /\ Present(handle.id) => (sel.form = "id" /\ sel.val = handle.id.s)
          /\ (~Present(handle.id) /\ Present(handle.name))
             => (sel.form = "name" /\ sel.tag = handle.tag /\ sel.val = handle.name.s)
          /\ (~Present(handle.id) /\ ~Present(handle.name) /\ Present(handle.testid))
             => (sel.form = "testid" /\ sel.val = handle.testid.s)
          /\ (/\ ~Present(handle.id) /\ ~Present(handle.name) /\ ~Present(handle.testid)
              /\ handle.classList # <<>>)
             => /\ sel.form = "class" /\ sel.tag = handle.tag
                /\ Len(sel.classes) = (IF Len(handle.classList) < 2
                                       THEN Len(handle.classList) ELSE 2)
                /\ \A i \in DOMAIN sel.classes : sel.classes[i] = handle.classList[i]
          /\ (/\ ~Present(handle.id) /\ ~Present(handle.name) /\ ~Present(handle.testid)
              /\ handle.classList = <<>>)
             => (sel.form = "tag" /\ sel.tag = handle.tag)

C32_Witness ==
    /\ pc = "inspected"
    /\ handle.id = Str("") /\ handle.name = Str("x") /\ handle.testid = Str("x")
    /\ Len(handle.classList) = 3 /\ handle.tag = "input"
    /\ element.selector.form = "name" /\ element.selector.tag = "input"

\* C33: an extracted element is classified is_clickable = true exactly when
\* its tag is a or button, or it has an onclick attribute, or its role
\* attribute is button; in particular a visible element that is neither an
\* anchor nor a button and has an onclick attribute is classified clickable.
C33_ClickableClassification ==
    pc = "inspected"
    => (element.is_clickable
        <=> \/ handle.tag \in {"a", "button"}
            \/ handle.onclick # Null
            \/ handle.role = Str("button"))

\* C34: every call of BrowserTools.execute appends exactly one ActionResult to
\* action_history, on success and on failure, and action_history is never
\* shortened; so two screenshot actions executed without a filename on the same
\* BrowserTools instance get different default filenames.
C34_OneResultPerExecute ==
    [][LET n == Len(action_history)
           new == Last(action_history')
       IN /\ Len(action_history') = n + 1
          /\ SubSeq(action_history', 1, n) = action_history
          /\ (new.action.kind = "screenshot" /\ new.action.value # Str("f.png"))
             => /\ new.action.value = Str("screenshot_" \o ToString(n) \o ".png")
                /\ \A i \in 1..n :
                      action_history[i].action.kind = "screenshot"
                      => action_history[i].action.value # new.action.value
      ]_vars

C34_Witness ==
    /\ pc = "tool" /\ Len(action_history) = 2
    /\ action_history[1].action = Action("screenshot", Null, Str("screenshot_0.png"), Str(""))
    /\ action_history[2].action = Action("screenshot", Null, Str("screenshot_1.png"), Str(""))
    /\ ~action_history[1].success /\ action_history[2].success

\* C35: when run returns, is_running is false if and only if the last recorded
\* step selected done; after budget exhaustion or a fatal abort it is still
\* true; and it is set to true again at the start of every run.
C35_RunningFlag ==
    [][/\ (pc # "returned" /\ pc' = "returned")
          => /\ ~is_running'
                <=> /\ step_history' # <<>>
                    /\ parse_action_from_dict(Last(step_history').action).act.kind = "done"
             /\ exit' \in {"budget", "snapshot", "select", "select_empty"} => is_running'
             /\ exit' = "done" => ~is_running'
       /\ (pc \in Between /\ pc' = "loop") => is_running'
      ]_vars

C35_Witness ==
    /\ pc = "loop" /\ runs_left = 0 /\ is_running /\ browser = "open"
    /\ action_history # <<>> /\ Last(action_history).action.kind = "done"

\* C36: get_agent constructs at most one BrowserUseAgent per process, and every
\* agent it returns is fully initialized (browser, page, tools and
\* snapshot_extractor set), also for a call made after an earlier call's
\* initialize raised.  A step out of "tool_call" is one get_agent call: it
\* raises when the agent it has just constructed fails to initialize, and
\* returns the process's agent otherwise.
C36_GetAgentInitialized ==
    [][/\ (pc = "tool_call" /\ ~(agent_instance = "none" /\ agent_instance' = "broken"))
          => agent_instance # "broken"
       /\ agent_instance # "none" => agent_instance' # "none"
      ]_vars

\* C37: in the stdio loop every request line that parses as JSON and whose
\* method is not notifications/initialized produces exactly one response line
\* carrying that request's id, before the next line is read: a result for
\* initialize, tools/list and a tools/call that returns, error -32000 for a
\* tools/call whose tool raises, error -32601 for any other method;
\* notifications/initialized and lines that are not valid JSON produce no
\* response and do not stop the loop.
C37_OneResponsePerRequest ==
    [][pc = "handle"
       => /\ (/\ line.kind = "json" /\ line.value = "object"
              /\ line.method # "notifications/initialized")
             => /\ Len(stdout') = Len(stdout) + 1
                /\ SubSeq(stdout', 1, Len(stdout)) = stdout
                /\ Last(stdout').id = line.id
                /\ pc' = "readline"
                /\ line.method \in {"initialize", "tools/list"}
                   => Last(stdout').kind = "result"
                /\ (line.method = "tools/call" /\ line.params # "null")
                   => Last(stdout') = IF line.tool = "returns"
                                      THEN [kind |-> "result", code |-> 0, id |-> line.id]
                                      ELSE [kind |-> "error", code |-> -32000, id |-> line.id]
                /\ line.method \in {"ping", "absent"}
                   => (Last(stdout').kind = "error" /\ Last(stdout').code = -32601)
          /\ (line.kind = "text" \/ line.method = "notifications/initialized")
             => (stdout' = stdout /\ pc' = "readline")
      ]_vars

\* C38: on a BookCrawler, request_pickup and get_my_loans return a failed
\* result with the login-required message and navigate nowhere unless an
\* earlier login call on the same crawler succeeded; is_logged_in starts false,
\* becomes true only in a login call that returns success, and no operation, a
\* later failed login included, sets it back to false.
C38_LoginGate ==
    [][/\ (crawler_calls = 0) => ~is_logged_in
       /\ is_logged_in' # is_logged_in
          => (~is_logged_in /\ crawler_result'.op = "login" /\ crawler_result'.success)
       /\ (crawler_result'.op = "login" /\ crawler_result'.success) => is_logged_in'
       /\ is_logged_in => is_logged_in'
       /\ (crawler_result'.op \in {"request_pickup", "get_my_loans"} /\ ~is_logged_in)
          => /\ ~crawler_result'.success
             /\ crawler_result'.message = "login_required"
             /\ ~crawler_result'.navigated
       /\ (crawler_result'.op \in {"request_pickup", "get_my_loans"} /\ is_logged_in)
          => crawler_result'.message # "login_required"
      ]_vars

C38_Witness ==
    /\ crawler_calls = 3 /\ is_logged_in
    /\ crawler_result.op = "get_my_loans" /\ crawler_result.success
    /\ crawler_result.navigated

\* C39: a request_book_pickup tool call that leaves pickup_location out uses
\* the documented default branch 농학도서관: after a successful login it is
\* accepted as one of the three supported branches and not rejected as an
\* unsupported branch.
C39_OmittedLocationDefault ==
    (crawler_result.op = "request_pickup" /\ crawler_result.omitted /\ is_logged_in)
    => /\ crawler_result.location = SchemaDefault
       /\ crawler_result.message # "unsupported_branch"

====
